---- MODULE Spec2Model ----
(***************************************************************************)
(* State-machine model of the RBFnet class of probeml.py: the staged       *)
(* training pipeline (adapt_normalization, compute_centers, fit_weights,   *)
(* fit_weights_and_radius), the wrapper train, and predict.                *)
(*                                                                         *)
(* Numeric arrays are modelled by their shape and by the quantities the    *)
(* control flow depends on.  A mean is the rational <<sum, n>>.  A         *)
(* standard deviation is kept as its square, the rational                  *)
(* <<n*sum(x^2) - sum(x)^2, n^2>>: the square root is strictly monotone,   *)
(* so a deviation is zero (positive) exactly when that numerator is.       *)
(* Results of KMeans, lstsq, the kernel and the error measures are         *)
(* symbolic terms that record the arguments they were computed from.       *)
(* Python values that may be a function or a bool travel as tagged         *)
(* records, so that passing one where the other is expected is visible.    *)
(***************************************************************************)
EXTENDS Integers, Sequences, FiniteSets, TLC

\* ---------------------------------------------------------------- bounds
MaxRows == 2
MaxCols == 2
\* KMeans is asked for up to one center more than there are samples
MaxNum == MaxRows + 1
MaxRadius == 2
MaxEvals == 2

\* ------------------------------------------------------- program constants
\* tolerances are counted in units of 1e-6
TolLiteral == 1
RadiusZero == 1

\* ------------------------------------------------------------ python values
PyFun(name) == [type |-> "function", v |-> name]
PyBool(b) == [type |-> "bool", v |-> IF b THEN "True" ELSE "False"]
Callable(x) == x.type = "function"
Truthy(x) == x.type = "function" \/ x.v = "True"

gaussian == PyFun("gaussian")
rms_error == PyFun("rms_error")
mean_rel_error == PyFun("mean_rel_error")

Kernels == {gaussian}
Measures == {rms_error, mean_rel_error}
Bools == {PyBool(TRUE), PyBool(FALSE)}
Methods == {"powell", "nelder-mead"}
Tols == {TolLiteral, 1000}

NoRadius == [none |-> TRUE, val |-> 0]
GivenRadius(r) == [none |-> FALSE, val |-> r]
Radii == 1..MaxRadius
RadiusArgs == {NoRadius} \cup {GivenRadius(r) : r \in Radii}

\* ------------------------------------------------------------------ datasets
\* input[i][j] is data point i, independent variable j.  Two families: every
\* column varies; the first column is constant (with one column, the whole
\* matrix is).
Entry(kind, i, j) ==
    IF kind = "const0" /\ j = 1 THEN 1 ELSE i * j

Matrix(kind, n, c) == [i \in 1..n |-> [j \in 1..c |-> Entry(kind, i, j)]]

Inputs == {Matrix(k, MaxRows, c) : k \in {"ramp", "const0"}, c \in 1..MaxCols}
\* training inputs of either width without a constant column
VaryingInputs == {Matrix("ramp", MaxRows, c) : c \in 1..MaxCols}

\* output[i] is data point i of the dependent variable
Outputs == {[i \in 1..n |-> i] : n \in 1..MaxRows}
FullOutputs == {[i \in 1..MaxRows |-> i]}

NRows(x) == Len(x)
NCols(x) == Len(x[1])

\* ---------------------------------------------------------------- statistics
RECURSIVE SumSeq(_)
SumSeq(s) == IF s = <<>> THEN 0 ELSE Head(s) + SumSeq(Tail(s))

Column(x, j) == [i \in 1..NRows(x) |-> x[i][j]]
RECURSIVE Flatten(_)
Flatten(x) == IF x = <<>> THEN <<>> ELSE Head(x) \o Flatten(Tail(x))

Squares(s) == [i \in 1..Len(s) |-> s[i] * s[i]]

\* np.mean of a vector
Mean(s) == <<SumSeq(s), Len(s)>>
\* np.std of a vector, squared
Std2(s) == <<Len(s) * SumSeq(Squares(s)) - SumSeq(s) * SumSeq(s), Len(s) * Len(s)>>

Scalar(q) == [scalar |-> TRUE, v |-> <<q>>]
Vector(qs) == [scalar |-> FALSE, v |-> qs]
\* length of axis 0 of a 1-d array, 0 for a scalar
Dim(a) == IF a.scalar THEN 0 ELSE Len(a.v)
HasZero(a) == \E i \in 1..Len(a.v) : a.v[i][1] = 0
Positive(a) == \A i \in 1..Len(a.v) : a.v[i][1] > 0

\* numpy broadcasting of the trailing axis: lengths a and b (0 for a scalar)
\* give the length of the result, or -1 when the shapes do not broadcast
Broadcast(a, b) ==
    CASE a < 0 \/ b < 0 -> -1
      [] a = 0 -> b
      [] b = 0 -> a
      [] a = b -> a
      [] a = 1 -> b
      [] b = 1 -> a
      [] OTHER -> -1

\* --------------------------------------------------------------- the object
NoCenters == [num |-> 0, dim |-> 0]
NoCoeffs == [len |-> 0, centers |-> NoCenters, radius |-> 0, rbf |-> PyFun("")]
NoResidual == [rows |-> 0, coeffs |-> NoCoeffs]
NoError == [measure |-> PyFun(""), radius |-> 0]

VARIABLES input_shift, input_scale, output_shift, output_scale,
          attrs, centers, coeffs, residual, rbf, radius, error, fcall,
          last, twin

fields == <<input_shift, input_scale, output_shift, output_scale,
            attrs, centers, coeffs, residual, rbf, radius, error, fcall>>
vars == <<fields, last, twin>>

\* the arguments of a call of scipy.optimize.minimize, with the measure and
\* the verbose flag its objective and callback close over
NoMinimize == [called |-> FALSE, x0 |-> 0, tol |-> 0, method |-> "", options |-> "",
               measure |-> PyFun(""), verbose |-> PyFun("")]

\* the object as a record, threaded through the methods; exc is the exception
\* in flight ("" for none), wrote the fields assigned by the running call,
\* log the stages it entered, each with the fields assigned before it,
\* printed the number of lines written to stdout by it, evals the objective
\* evaluations of the running minimization, minimize its arguments
Self ==
    [input_shift |-> input_shift, input_scale |-> input_scale,
     output_shift |-> output_shift, output_scale |-> output_scale,
     attrs |-> attrs, centers |-> centers, coeffs |-> coeffs,
     residual |-> residual, rbf |-> rbf, radius |-> radius,
     error |-> error, fcall |-> fcall,
     exc |-> "", log |-> <<>>, wrote |-> {}, printed |-> 0, evals |-> <<>>,
     minimize |-> NoMinimize]

Raise(m, e) == [m EXCEPT !.exc = e]
Enter(m, stage) == [m EXCEPT !.log = Append(@, [stage |-> stage, wrote |-> m.wrote])]
Has(m, a) == a \in m.attrs

\* RBFnet.__init__
NewNet ==
    [input_shift |-> Scalar(<<0, 1>>), input_scale |-> Scalar(<<1, 1>>),
     output_shift |-> Scalar(<<0, 1>>), output_scale |-> Scalar(<<1, 1>>),
     attrs |-> {}, centers |-> NoCenters, coeffs |-> NoCoeffs,
     residual |-> NoResidual, rbf |-> PyFun(""), radius |-> 0,
     error |-> NoError, fcall |-> 0,
     exc |-> "", log |-> <<>>, wrote |-> {}, printed |-> 0, evals |-> <<>>,
     minimize |-> NoMinimize]

\* --------------------------------------------------------------- normalizer
\* normalize_input: (input - input_shift) / input_scale.  ok is FALSE when the
\* shapes do not broadcast (ValueError); finite is FALSE when a component is
\* divided by a zero scale (inf or nan, numpy only warns).
normalize_input(m, input) ==
    LET c == Broadcast(Broadcast(NCols(input), Dim(m.input_shift)), Dim(m.input_scale))
    IN  [ok |-> c >= 0, rows |-> NRows(input), cols |-> c,
         finite |-> ~HasZero(m.input_scale)]

\* normalize_output: (output - output_shift) / output_scale on a 1-d output
normalize_output(m, output) ==
    LET c == Broadcast(Broadcast(Len(output), Dim(m.output_shift)), Dim(m.output_scale))
    IN  [ok |-> c >= 0, rows |-> c, finite |-> ~HasZero(m.output_scale)]

adapt_normalization(m0, input, output, keep_aspect) ==
    LET m == Enter(m0, "adapt_normalization")
    IN  [m EXCEPT
           !.output_shift = Scalar(Mean(output)),
           !.output_scale = Scalar(Std2(output)),
           !.input_shift = Vector([j \in 1..NCols(input) |-> Mean(Column(input, j))]),
           !.input_scale = IF keep_aspect
                           THEN Scalar(Std2(Flatten(input)))
                           ELSE Vector([j \in 1..NCols(input) |-> Std2(Column(input, j))]),
           !.wrote = @ \cup {"output_shift", "output_scale", "input_shift", "input_scale"}]

\* ----------------------------------------------------------- center selector
\* KMeans(n_clusters=num).fit(inp) rejects non-finite samples and fewer
\* samples than clusters; its result is num centers of the dimension of inp.
compute_centers(m0, input, num) ==
    LET m == Enter(m0, "compute_centers")
        inp == normalize_input(m, input)
    IN  IF ~inp.ok THEN Raise(m, "ValueError")
        ELSE IF ~inp.finite \/ inp.rows < num THEN Raise(m, "ValueError")
        ELSE [m EXCEPT !.centers = [num |-> num, dim |-> inp.cols],
                       !.attrs = @ \cup {"centers"},
                       !.wrote = @ \cup {"centers"}]

\* -------------------------------------------------------------- weight solver
FitAttrs == {"coeffs", "residual", "rbf", "radius"}

\* faulty variant: the radius field is left at the default radius of the signature
fit_weights_default_radius(m0, input, output, r, kernel, lsq_raises) ==
    LET m == Enter(m0, "fit_weights")
        inp == normalize_input(m, input)
        outp == normalize_output(m, output)
        w == [len |-> m.centers.num, centers |-> m.centers, radius |-> r, rbf |-> kernel]
    IN  IF ~inp.ok \/ ~outp.ok THEN Raise(m, "ValueError")
        ELSE IF inp.rows # outp.rows THEN Raise(m, "AssertionError")
        ELSE IF ~Has(m, "centers") THEN Raise(m, "AttributeError")
        ELSE IF inp.cols # m.centers.dim THEN Raise(m, "AssertionError")
        ELSE IF ~Callable(kernel) THEN Raise(m, "TypeError")
        ELSE IF (~inp.finite \/ ~outp.finite) /\ lsq_raises THEN Raise(m, "LinAlgError")
        ELSE [m EXCEPT !.coeffs = w,
                       !.residual = [rows |-> inp.rows, coeffs |-> w],
                       !.rbf = kernel,
                       !.radius = 1,
                       !.attrs = @ \cup FitAttrs,
                       !.wrote = @ \cup FitAttrs]

\* lsq_raises: whether LAPACK reports failure on a non-finite system
fit_weights(m0, input, output, r, kernel, lsq_raises) ==
    LET m == Enter(m0, "fit_weights")
        inp == normalize_input(m, input)
        outp == normalize_output(m, output)
        w == [len |-> m.centers.num, centers |-> m.centers, radius |-> r, rbf |-> kernel]
    IN  IF ~inp.ok \/ ~outp.ok THEN Raise(m, "ValueError")
        ELSE IF inp.rows # outp.rows THEN Raise(m, "AssertionError")
        ELSE IF ~Has(m, "centers") THEN Raise(m, "AttributeError")
        ELSE IF inp.cols # m.centers.dim THEN Raise(m, "AssertionError")
        ELSE IF ~Callable(kernel) THEN Raise(m, "TypeError")
        ELSE IF (~inp.finite \/ ~outp.finite) /\ lsq_raises THEN Raise(m, "LinAlgError")
        ELSE [m EXCEPT !.coeffs = w,
                       !.residual = [rows |-> inp.rows, coeffs |-> w],
                       !.rbf = kernel,
                       !.radius = r,
                       !.attrs = @ \cup FitAttrs,
                       !.wrote = @ \cup FitAttrs]

\* ------------------------------------------------------------------ predictor
\* faulty variant: predict goes on with zero weights when none were fitted
predict_unfitted(m0, input) ==
    LET m == Enter(m0, "predict")
        inp == normalize_input(m, input)
    IN  IF ~inp.ok THEN Raise(m, "ValueError")
        ELSE IF ~Has(m, "centers") THEN Raise(m, "AttributeError")
        ELSE IF Broadcast(inp.cols, m.centers.dim) < 0 THEN Raise(m, "ValueError")
        ELSE m

\* faulty variant: predict standardizes the input it is given with that input's mean
predict_renormalizing(m0, input) ==
    LET m == [Enter(m0, "predict") EXCEPT !.input_shift =
                 Vector([j \in 1..NCols(input) |-> Mean(Column(input, j))])]
        inp == normalize_input(m, input)
    IN  IF ~inp.ok THEN Raise(m, "ValueError")
        ELSE IF ~Has(m, "centers") THEN Raise(m, "AttributeError")
        ELSE IF Broadcast(inp.cols, m.centers.dim) < 0 THEN Raise(m, "ValueError")
        ELSE IF ~Has(m, "coeffs") THEN Raise(m, "AttributeError")
        ELSE IF m.coeffs.len < m.centers.num THEN Raise(m, "IndexError")
        ELSE m

\* the object is returned as it was, apart from the exception and the log
predict(m0, input) ==
    LET m == Enter(m0, "predict")
        inp == normalize_input(m, input)
    IN  IF ~inp.ok THEN Raise(m, "ValueError")
        ELSE IF ~Has(m, "centers") THEN Raise(m, "AttributeError")
        ELSE IF Broadcast(inp.cols, m.centers.dim) < 0 THEN Raise(m, "ValueError")
        ELSE IF ~Has(m, "coeffs") THEN Raise(m, "AttributeError")
        ELSE IF m.coeffs.len < m.centers.num THEN Raise(m, "IndexError")
        ELSE m

\* ----------------------------------------------------------- radius optimizer
\* faulty variant: the objective predicts before it fits the trial radius
fun_predicts_first(m0, input, output, kernel, measure, r, lsq_raises) ==
    LET m1 == predict(m0, input)
        m2 == fit_weights(m1, input, output, r, kernel, lsq_raises)
        m3 == Enter(Enter(m2, "measure"), "store_error")
        e == [measure |-> measure, radius |-> m1.radius]
    IN  IF m1.exc # "" THEN m1
        ELSE IF m2.exc # "" THEN m2
        ELSE IF ~Callable(measure) THEN Raise(m2, "TypeError")
        ELSE [m3 EXCEPT !.error = e,
                        !.attrs = @ \cup {"error"},
                        !.wrote = @ \cup {"error"},
                        !.evals = Append(@, [radius |-> r, value |-> e])]

\* fun(radius), the objective closure of fit_weights_and_radius.  The value of
\* measure(output, predict(input)) is the term naming the measure and the
\* radius the prediction was made with.
fun(m0, input, output, kernel, measure, r, lsq_raises) ==
    LET m1 == fit_weights(m0, input, output, r, kernel, lsq_raises)
        m2 == predict(m1, input)
        m3 == Enter(Enter(m2, "measure"), "store_error")
        e == [measure |-> measure, radius |-> m2.radius]
    IN  IF m1.exc # "" THEN m1
        ELSE IF m2.exc # "" THEN m2
        ELSE IF ~Callable(measure) THEN Raise(m2, "TypeError")
        ELSE [m3 EXCEPT !.error = e,
                        !.attrs = @ \cup {"error"},
                        !.wrote = @ \cup {"error"},
                        !.evals = Append(@, [radius |-> r, value |-> e])]

\* faulty variant: the verbose callback also clears the stored error
callback_clearing_error(m, verbose) ==
    IF Truthy(verbose)
    THEN [m EXCEPT !.fcall = @ + 1, !.printed = @ + 1, !.error = NoError]
    ELSE m

\* callback(params) of fit_weights_and_radius
callback(m, verbose) ==
    IF Truthy(verbose)
    THEN [m EXCEPT !.fcall = @ + 1, !.printed = @ + 1]
    ELSE m

\* scipy.optimize.minimize: the objective is evaluated at the trial points in
\* order, the first of which is x0; the callback runs after each of the first
\* cb evaluations.  An exception of the objective ends the run.
RECURSIVE minimize(_, _, _, _, _, _, _, _, _, _)
minimize(m, input, output, kernel, measure, verbose, trials, k, cb, lsq_raises) ==
    IF k > Len(trials) THEN m
    ELSE LET m1 == fun(m, input, output, kernel, measure, trials[k], lsq_raises)
         IN  IF m1.exc # "" THEN m1
             ELSE minimize(IF k <= cb THEN callback(m1, verbose) ELSE m1,
                           input, output, kernel, measure, verbose,
                           trials, k + 1, cb, lsq_raises)

\* the trial points a minimizer may choose after x0
TrialRests == UNION {[1..n -> Radii] : n \in 0..(MaxEvals - 1)}

fit_weights_and_radius(m0, input, output, kernel, measure, verbose, method, options, tol, rest, cb, lsq_raises) ==
    LET m1 == Enter(m0, "fit_weights_and_radius")
        m2 == IF Truthy(verbose) THEN [m1 EXCEPT !.printed = @ + 1] ELSE m1
        m3 == [m2 EXCEPT !.fcall = 0, !.attrs = @ \cup {"fcall"},
                         !.wrote = @ \cup {"fcall"}]
        radius_0 == RadiusZero
        m4 == [m3 EXCEPT !.minimize =
                 [called |-> TRUE, x0 |-> radius_0, tol |-> TolLiteral,
                  method |-> method, options |-> options,
                  measure |-> measure, verbose |-> verbose]]
    IN  minimize(m4, input, output, kernel, measure, verbose,
                 <<radius_0>> \o rest, 1, cb, lsq_raises)

\* ---------------------------------------------------------------------- train
\* faulty variant: the centers are computed before the normalization is adapted
train_centers_first(m0, input, output, num, radiusArg, kernel, keep_aspect, verbose, measure, rest, cb, lsq_raises) ==
    LET m1 == compute_centers(m0, input, num)
        m2 == adapt_normalization(m1, input, output, keep_aspect)
    IN  IF m1.exc # "" THEN m1
        ELSE IF radiusArg.none
        THEN fit_weights_and_radius(m2, input, output, kernel, verbose, measure,
                                    "powell", "None", TolLiteral, rest, cb, lsq_raises)
        ELSE fit_weights(m2, input, output, radiusArg.val, kernel, lsq_raises)

train(m0, input, output, num, radiusArg, kernel, keep_aspect, verbose, measure, rest, cb, lsq_raises) ==
    LET m1 == adapt_normalization(m0, input, output, keep_aspect)
        m2 == compute_centers(m1, input, num)
    IN  IF m2.exc # "" THEN m2
        ELSE IF radiusArg.none
        THEN fit_weights_and_radius(m2, input, output, kernel, verbose, measure,
                                    "powell", "None", TolLiteral, rest, cb, lsq_raises)
        ELSE fit_weights(m2, input, output, radiusArg.val, kernel, lsq_raises)

\* ---------------------------------------------------------------- the machine
\* what is remembered of the arguments of the last call
NoArgs ==
    [rows |-> 0, cols |-> 0, orows |-> 0, radius |-> NoRadius,
     verbose |-> PyFun(""), measure |-> PyFun(""),
     method |-> "", options |-> "", tol |-> 0]
Shapes(input, output) ==
    [NoArgs EXCEPT !.rows = NRows(input), !.cols = NCols(input), !.orows = Len(output)]

\* what a run of fit_weights_and_radius leaves behind
Outcome(m) ==
    [valid |-> TRUE, coeffs |-> m.coeffs, residual |-> m.residual,
     radius |-> m.radius, error |-> m.error, attrs |-> m.attrs,
     evals |-> m.evals, exc |-> m.exc, fcall |-> m.fcall, printed |-> m.printed]
NoTwin ==
    [valid |-> FALSE, coeffs |-> NoCoeffs, residual |-> NoResidual,
     radius |-> 0, error |-> NoError, attrs |-> {},
     evals |-> <<>>, exc |-> "", fcall |-> 0, printed |-> 0]

Init ==
    /\ input_shift = NewNet.input_shift
    /\ input_scale = NewNet.input_scale
    /\ output_shift = NewNet.output_shift
    /\ output_scale = NewNet.output_scale
    /\ attrs = NewNet.attrs
    /\ centers = NewNet.centers
    /\ coeffs = NewNet.coeffs
    /\ residual = NewNet.residual
    /\ rbf = NewNet.rbf
    /\ radius = NewNet.radius
    /\ error = NewNet.error
    /\ fcall = NewNet.fcall
    /\ last = [op |-> "__init__", args |-> NoArgs, exc |-> "", log |-> <<>>,
               wrote |-> {}, printed |-> 0, evals |-> <<>>, minimize |-> NoMinimize]
    /\ twin = NoTwin

\* the call returns or raises: the object keeps what the call wrote
Return(op, args, result, t) ==
  \E m \in {result} :
    /\ input_shift' = m.input_shift
    /\ input_scale' = m.input_scale
    /\ output_shift' = m.output_shift
    /\ output_scale' = m.output_scale
    /\ attrs' = m.attrs
    /\ centers' = m.centers
    /\ coeffs' = m.coeffs
    /\ residual' = m.residual
    /\ rbf' = m.rbf
    /\ radius' = m.radius
    /\ error' = m.error
    /\ fcall' = m.fcall
    /\ last' = [op |-> op, args |-> args, exc |-> m.exc, log |-> m.log,
                wrote |-> m.wrote, printed |-> m.printed, evals |-> m.evals,
                minimize |-> m.minimize]
    /\ twin' = t

\* LAPACK may fail or not only on a system with non-finite entries
LsqOutcomes(m, input, output) ==
    IF normalize_input(m, input).finite /\ normalize_output(m, output).finite
    THEN {FALSE} ELSE BOOLEAN

\* the minimizer chooses further trial points, and reports iterations, only
\* when it was called and the objective returned at x0 (first is the call
\* with a minimizer that stops after x0)
Schedules(first) ==
    IF first.exc # "" \/ ~first.minimize.called
    THEN {[rest |-> <<>>, cb |-> 0]}
    ELSE {[rest |-> sc[1], cb |-> sc[2]] :
            sc \in {x \in TrialRests \X (0..MaxEvals) : x[2] <= Len(x[1]) + 1}}

Flip(verbose) == PyBool(~Truthy(verbose))

\* The calls a client makes, over the datasets and optional arguments given.
CallAdaptNormalization(Ins, Outs) ==
    \E input \in Ins, output \in Outs, keep_aspect \in BOOLEAN :
        Return("adapt_normalization", NoArgs,
               adapt_normalization(Self, input, output, keep_aspect), NoTwin)

CallComputeCenters(Ins) ==
    \E input \in Ins, num \in 1..MaxNum :
        Return("compute_centers", NoArgs,
               compute_centers(Self, input, num), NoTwin)

CallFitWeights(Ins, Outs) ==
    \E input \in Ins, output \in Outs, r \in Radii, kernel \in Kernels :
      \E lsq_raises \in LsqOutcomes(Self, input, output) :
        Return("fit_weights", Shapes(input, output),
               fit_weights(Self, input, output, r, kernel, lsq_raises), NoTwin)

CallFitWeightsAndRadius(Ins, Outs, Ms, Vs, Meths, Ts) ==
    \E input \in Ins, output \in Outs, kernel \in Kernels,
       measure \in Ms, verbose \in Vs, method \in Meths, tol \in Ts :
      \E lsq_raises \in LsqOutcomes(Self, input, output) :
      \E sc \in Schedules(fit_weights_and_radius(Self, input, output, kernel, measure,
                              verbose, method, "None", tol, <<>>, 0, lsq_raises)) :
        Return("fit_weights_and_radius",
               [NoArgs EXCEPT !.measure = measure, !.verbose = verbose,
                              !.method = method, !.options = "None", !.tol = tol],
               fit_weights_and_radius(Self, input, output, kernel, measure, verbose,
                                      method, "None", tol, sc.rest, sc.cb, lsq_raises),
               Outcome(fit_weights_and_radius(Self, input, output, kernel, measure,
                                              Flip(verbose), method, "None", tol,
                                              sc.rest, sc.cb, lsq_raises)))

CallPredict(Ins) ==
    \E input \in Ins :
        Return("predict", NoArgs, predict(Self, input), NoTwin)

\* verbose and measure are read, and the minimizer runs, only for radius=None
CallTrain(Ins, Outs, Ms, Vs) ==
    \E input \in Ins, output \in Outs, num \in 1..MaxNum,
       radiusArg \in RadiusArgs, kernel \in Kernels, keep_aspect \in BOOLEAN :
      \E verbose \in IF radiusArg.none THEN Vs ELSE {PyBool(FALSE)},
         measure \in IF radiusArg.none THEN Ms ELSE {rms_error},
         lsq_raises \in LsqOutcomes(adapt_normalization(Self, input, output, keep_aspect),
                                    input, output) :
      \E sc \in IF radiusArg.none
                THEN Schedules(train(Self, input, output, num, radiusArg, kernel,
                                     keep_aspect, verbose, measure, <<>>, 0, lsq_raises))
                ELSE {[rest |-> <<>>, cb |-> 0]} :
        Return("train",
               [NoArgs EXCEPT !.radius = radiusArg,
                              !.verbose = verbose, !.measure = measure],
               train(Self, input, output, num, radiusArg, kernel, keep_aspect,
                     verbose, measure, sc.rest, sc.cb, lsq_raises), NoTwin)

\* ---- the whole interface, on well-shaped training sets of either width
AdaptNormalization == CallAdaptNormalization(VaryingInputs, FullOutputs)
ComputeCenters == CallComputeCenters(VaryingInputs)
FitWeights == CallFitWeights(VaryingInputs, FullOutputs)
\* fit_weights_and_radius is called with its defaults
FitWeightsAndRadius ==
    CallFitWeightsAndRadius(VaryingInputs, FullOutputs, {rms_error}, {PyBool(TRUE)},
                            {"powell"}, {TolLiteral})
Predict == CallPredict(VaryingInputs)
\* train is called with the default verbose and measure
Train == CallTrain(VaryingInputs, FullOutputs, {rms_error}, {PyBool(FALSE)})

Next ==
    \/ AdaptNormalization
    \/ ComputeCenters
    \/ FitWeights
    \/ FitWeightsAndRadius
    \/ Predict
    \/ Train

Spec == Init /\ [][Next]_vars

\* ---- the staged methods, on every dataset
StagedAdaptNormalization == CallAdaptNormalization(Inputs, Outputs)
StagedComputeCenters == CallComputeCenters(Inputs)
StagedFitWeights == CallFitWeights(Inputs, Outputs)
StagedPredict == CallPredict(Inputs)

NextStaged ==
    \/ StagedAdaptNormalization
    \/ StagedComputeCenters
    \/ StagedFitWeights
    \/ StagedPredict

SpecStaged == Init /\ [][NextStaged]_vars

\* ---- the radius optimizer, with every optional argument, on one training set
TrainingInputs == {Matrix("ramp", MaxRows, MaxCols)}
RadiusAdaptNormalization == CallAdaptNormalization(TrainingInputs, FullOutputs)
RadiusComputeCenters == CallComputeCenters(TrainingInputs)
RadiusFitWeightsAndRadius ==
    CallFitWeightsAndRadius(TrainingInputs, FullOutputs, Measures, Bools, Methods, Tols)
RadiusTrain == CallTrain(TrainingInputs, FullOutputs, Measures, Bools)

NextRadius ==
    \/ RadiusAdaptNormalization
    \/ RadiusComputeCenters
    \/ RadiusFitWeightsAndRadius
    \/ RadiusTrain

SpecRadius == Init /\ [][NextRadius]_vars

\* ===================================================================== claims
StageNames(log) == [i \in 1..Len(log) |-> log[i].stage]
NormFields == {"input_shift", "input_scale", "output_shift", "output_scale"}
\* the weights are those of the current centers, radius and kernel
Match ==
    /\ coeffs.len = centers.num
    /\ coeffs.centers = centers
    /\ coeffs.radius = radius
    /\ coeffs.rbf = rbf

\* C1: when train is called with radius=None, the measure the minimization
\* uses is the measure argument of train and its logging flag is the verbose
\* argument of train.
C1_TrainPassesMeasure ==
    (last.op = "train" /\ last.args.radius.none /\ last.minimize.called)
        => /\ last.minimize.measure = last.args.measure
           /\ last.minimize.verbose = last.args.verbose

\* C2: train enters adapt_normalization, then compute_centers, then one weight
\* stage, fit_weights with the given radius or fit_weights_and_radius for
\* radius=None; the weight stage is entered with the normalization and the
\* centers already written by this call, and the stages of a call that
\* returns are all three.
C2_TrainStageOrder ==
    last.op = "train" =>
        LET names == StageNames(last.log)
            n == Len(names)
            weight == IF last.args.radius.none
                      THEN "fit_weights_and_radius" ELSE "fit_weights"
        IN  /\ n >= 1 /\ names[1] = "adapt_normalization"
            /\ n >= 2 => names[2] = "compute_centers"
            /\ n >= 3 => /\ names[3] = weight
                         /\ NormFields \cup {"centers"} \subseteq last.log[3].wrote
            /\ \A i \in 4..n :
                   /\ last.args.radius.none
                   /\ names[i] \in {"fit_weights", "predict", "measure", "store_error"}
            /\ last.exc = "" => /\ n >= 3
                                /\ ~last.args.radius.none => radius = last.args.radius.val

C2_witness ==
    /\ last.op = "train" /\ last.args.radius.none
    /\ Len(last.log) >= 3 /\ last.log[3].stage = "fit_weights_and_radius"

\* C3: a call of fit_weights whose input has another row count than the
\* output, or another column count than the existing centers have dimensions,
\* raises and assigns none of coeffs, residual, rbf, radius.
C3_MismatchIsFatal ==
    (/\ last.op = "fit_weights" /\ "centers" \in attrs
     /\ \/ last.args.rows # last.args.orows
        \/ last.args.cols # centers.dim)
        => /\ last.exc # ""
           /\ last.wrote \cap FitAttrs = {}

\* C4: predict returns a value only in a state where centers, coeffs, radius
\* and the kernel are all populated; otherwise it raises.
C4_PredictNeedsFit ==
    (last.op = "predict" /\ last.exc = "")
        => {"centers", "coeffs", "radius", "rbf"} \subseteq attrs

C4_witness ==
    /\ last.op = "predict" /\ last.exc = ""
    /\ {"centers", "coeffs", "radius", "rbf"} \subseteq attrs

\* C5: a call of predict, returning or raising, changes no field of the
\* object.
C5_PredictIsPure ==
    [][last'.op = "predict" => UNCHANGED fields]_vars

C5_witness ==
    /\ last.op = "predict" /\ last.exc = ""
    /\ ~input_shift.scalar

\* C6: every component of input_scale is strictly positive (the constructor
\* sets 1, and only adapt_normalization assigns it afterwards).
C6_InputScalePositive == Positive(input_scale)

\* C7: the run of fit_weights_and_radius with the verbose flag inverted
\* evaluates the same trial radii with the same objective values, ends the
\* same way and leaves the same coeffs, residual, radius and error.
C7_VerboseIsSideChannel ==
    last.op = "fit_weights_and_radius" =>
        /\ twin.valid
        /\ twin.evals = last.evals
        /\ twin.exc = last.exc
        /\ twin.coeffs = coeffs
        /\ twin.residual = residual
        /\ twin.radius = radius
        /\ twin.error = error
        /\ twin.attrs = attrs

C7_witness ==
    /\ last.op = "fit_weights_and_radius" /\ last.exc = ""
    /\ Len(last.evals) >= 2
    /\ twin.fcall # fcall /\ twin.printed # last.printed

\* C8: a run of fit_weights_and_radius enters, per objective evaluation,
\* fit_weights, predict, the measure and the store of the error, in this
\* order; when it returns, radius, coeffs and error are those of the last
\* trial radius evaluated.
C8_LastTrialIsKept ==
    (last.op = "fit_weights_and_radius" /\ last.exc = "") =>
        LET names == StageNames(last.log)
            cycle == <<"fit_weights", "predict", "measure", "store_error">>
            k == Len(last.evals)
        IN  /\ k >= 1
            /\ Len(names) = 1 + 4 * k
            /\ names[1] = "fit_weights_and_radius"
            /\ \A i \in 2..Len(names) : names[i] = cycle[((i - 2) % 4) + 1]
            /\ radius = last.evals[k].radius
            /\ coeffs.radius = last.evals[k].radius
            /\ error = last.evals[k].value
            /\ error.radius = last.evals[k].radius
            /\ Match

C8_witness ==
    /\ last.op = "fit_weights_and_radius" /\ last.exc = ""
    /\ Len(last.evals) = 2
    /\ last.evals[1].radius # last.evals[2].radius
    /\ radius = last.evals[2].radius

\* C9 as stated: whenever coeffs is populated it has one weight per current
\* center and was fitted with the current centers and radius, and predict
\* returns only values of such weights.
C9_CoeffsAlwaysMatch ==
    "coeffs" \in attrs => Match

\* C9 as amended: a call that assigns coeffs leaves them matching the current
\* centers, radius and kernel, and they keep matching through every call that
\* does not assign centers.
C9_CoeffsMatchUntilRecentred ==
    [][("coeffs" \in attrs'
        /\ \/ "coeffs" \in last'.wrote
           \/ ("centers" \notin last'.wrote /\ "coeffs" \in attrs /\ Match))
       => Match']_vars

C9_witness ==
    /\ last.op = "predict" /\ last.exc = ""
    /\ "coeffs" \in attrs /\ Match
    /\ centers.num > 1

\* C10: the minimizer is started with the method, the options and the
\* tolerance given to fit_weights_and_radius, and its first trial radius is 1.
C10_TolReachesMinimizer ==
    (last.op = "fit_weights_and_radius" /\ last.minimize.called)
        => /\ last.minimize.tol = last.args.tol
           /\ last.minimize.method = last.args.method
           /\ last.minimize.options = last.args.options
           /\ last.minimize.x0 = 1
           /\ Len(last.evals) >= 1 => last.evals[1].radius = 1

====
